---- MODULE Spec2Model ----
(***************************************************************************)
(* A model of EcoVision (src/eco.py): the history store (load_stats,       *)
(* save_stats, store_result and the session start-up), the impact          *)
(* normalisation and JSON extraction of call_gemini_for_waste, the image   *)
(* placement of _place_two_images and the text emitted by make_pdf_report. *)
(***************************************************************************)
EXTENDS Integers, Sequences, FiniteSets, TLC

VARIABLES
    \* ---- history store (process-wide file and cache, one browser session)
    file,        \* ecovision_stats.json: [tag, hist]
    cache,       \* st.cache_data store of load_stats: [full, val]
    session,     \* "none" | "ok" | "nonlist" | "crashed"  (st.session_state.history)
    history,     \* st.session_state.history when it is a list
    nextId,      \* stands for uuid.uuid4(): the next fresh record id
    lastOp,      \* "init" | "load" | "store"
    ret,         \* the value the last load_stats() call returned
    cacheHit,    \* whether that call was answered from the cache
    returned,    \* the entry the last store_result returned (0: none)
    warned,      \* the last store_result showed st.warning("Couldn't save stats")
    raised,      \* an exception left the last operation
    startup,     \* log: the list the first session of the process loaded
    appended,    \* log: the entries store_result inserted, oldest first
    writes,      \* log: the outcome of every save_stats call, oldest first
    \* ---- impact normalisation (call_gemini_for_waste, lines 205-208)
    raw,         \* the four raw impact values read for IMPACT_LABELS
    out,         \* data["impact_breakdown"], in tenths of a percent
    out2,        \* the breakdown of a second normalisation of out
    npc,         \* "input" | "once" | "twice"
    \* ---- JSON extraction (call_gemini_for_waste, lines 181-203)
    apiKey,      \* API_KEY is set (line 175)
    text,        \* (resp.text or "").strip(), a sequence of characters
    xres,        \* how the call ended: [kind, err, excerpt]
    xpc,         \* "call" | "done"
    \* ---- _place_two_images (lines 227-252)
    req,         \* the arguments: [w1, w2, gutter, im1, im2, y]
    placed,      \* what was drawn: [w1, w2, h1, h2, x1, x2, y], rationals
    ppc,         \* "call" | "placed"
    \* ---- make_pdf_report (lines 254-345), the "Download Report" page
    rec,         \* the record: [category, confidence, notes, steps, impact]
    today,       \* date.today(): [year, month, day]
    unicodeOk,   \* fonts/DejaVuSans.ttf exists (_register_unicode_font)
    rstep,       \* how many text-emitting calls the build has made
    cur,         \* the last of them: [kind, txt], txt as handed to pdf.cell
    rstatus,     \* "building" | "done" | "encoding_error"
    tip,         \* the eco tip this build emitted (<<>>: not yet)
    prev,        \* the build before this one: [day, tip, rec]
    \* ---- the Waste Analyser button handler (lines 446-458)
    lastResult,  \* st.session_state["last_result"] (0: the key is absent)
    lastPie,     \* st.session_state["last_pie"], named by its record (0: absent)
    attempt      \* how the last click in this session ended ("none": no click)

histVars == <<file, cache, session, history, nextId, lastOp, ret, cacheHit,
              returned, warned, raised, startup, appended, writes>>

normVars == <<raw, out, out2, npc>>

extractVars == <<apiKey, text, xres, xpc>>

placeVars == <<req, placed, ppc>>

reportVars == <<rec, today, unicodeOk, rstep, cur, rstatus, tip, prev>>

analyseVars == <<lastResult, lastPie, attempt>>

vars == <<histVars, normVars, extractVars, placeVars, reportVars, analyseVars>>

\* ---------------------------------------------------------------- bounds
MaxStored == 2     \* records already in the file when the process starts
MaxAppends == 3    \* store_result calls in one run
MaxRaw == 5        \* largest raw impact value the AI response is given
MaxTextLen == 6    \* length of the enumerated AI response texts
MaxWidthSteps == 6 \* requested image widths are 24, 48, ... mm
FirstYear == 2024  \* the first calendar year of the modelled dates
MaxYears == 2      \* number of calendar years
MaxDay == 3        \* days of each month: 1..MaxDay

\* --------------------------------------------------------------- helpers
Reverse(s) == [i \in 1..Len(s) |-> s[Len(s) + 1 - i]]

\* Records already on disk, most recent first: <<k, ..., 2, 1>>.
Stored(k) == [i \in 1..k |-> k + 1 - i]

\* The states of the backing file.  "absent": no file; "unparsable": json.load
\* raises; the other tags are parsable JSON documents: "histlist" an object
\* whose "history" is the list hist, "nohist" an object without the key,
\* "histnonlist" an object whose "history" is not a list, "nonobject" a JSON
\* value that is not an object.
FileTags == {"absent", "unparsable", "histlist", "nohist", "histnonlist", "nonobject"}

FileOf(tag, h) == [tag |-> tag, hist |-> h]

\* {"history": []}, the value of lines 101 and 102.
EmptyStats == FileOf("histlist", <<>>)

\* load_stats' body, run on a cache miss.
ReadStats(f) ==
    IF f.tag = "absent" THEN EmptyStats              \* os.path.exists is false
    ELSE IF f.tag = "unparsable" THEN EmptyStats     \* except Exception
    ELSE f                                           \* json.load(f)

\* load_stats under @st.cache_data: [val, cache, hit].
LoadStats(c, f) ==
    IF c.full
    THEN [val |-> c.val, cache |-> c, hit |-> TRUE]
    ELSE [val |-> ReadStats(f), cache |-> [full |-> TRUE, val |-> ReadStats(f)],
          hit |-> FALSE]

NoCache == [full |-> FALSE, val |-> EmptyStats]

\* What the environment lets a write do: "ok"; "open_fails" (open(..., "w")
\* raises, the file is untouched); "dump_fails" (open has truncated the file
\* and json.dump or the close raises: the file holds a prefix of a document).
WriteOutcomes == {"ok", "open_fails", "dump_fails"}

\* Mutant of SaveStats: the cache is not cleared after a successful write.
SaveStatsNoClear(data, outcome, c, f) ==
    IF outcome = "ok"
    THEN [file |-> FileOf("histlist", data), cache |-> c,
          warned |-> FALSE, raised |-> FALSE]
    ELSE [file |-> IF outcome = "dump_fails" THEN FileOf("unparsable", <<>>) ELSE f,
          cache |-> c, warned |-> TRUE, raised |-> FALSE]

\* Mutant of SaveStats: no try/except, the write error leaves save_stats.
SaveStatsRaises(data, outcome, c, f) ==
    IF outcome = "ok"
    THEN [file |-> FileOf("histlist", data), cache |-> NoCache,
          warned |-> FALSE, raised |-> FALSE]
    ELSE [file |-> IF outcome = "dump_fails" THEN FileOf("unparsable", <<>>) ELSE f,
          cache |-> c, warned |-> FALSE, raised |-> TRUE]

\* save_stats({"history": data}): [file, cache, warned, raised].
SaveStats(data, outcome, c, f) ==
    IF outcome = "ok"
    THEN [file |-> FileOf("histlist", data), cache |-> NoCache,   \* load_stats.clear()
          warned |-> FALSE, raised |-> FALSE]
    ELSE [file |-> IF outcome = "dump_fails" THEN FileOf("unparsable", <<>>) ELSE f,
          cache |-> c, warned |-> TRUE, raised |-> FALSE]         \* st.warning

\* Mutant of InsertFront: list.append instead of list.insert(0, ...).
InsertBack(entry, h) == Append(h, entry)

\* Mutant of InsertFront: the list is replaced by the new entry alone.
InsertAlone(entry, h) == <<entry>>

\* st.session_state.history.insert(0, entry)
InsertFront(entry, h) == <<entry>> \o h

\* ------------------------------------------------------------------ Init
HistInit ==
    /\ \E tag \in FileTags :
         \E k \in 0..MaxStored :
            /\ (tag # "histlist" => k = 0)
            /\ file = FileOf(tag, Stored(k))
            /\ nextId = k + 1
    /\ cache = NoCache
    /\ session = "none"
    /\ history = <<>>
    /\ lastOp = "init"
    /\ ret = EmptyStats
    /\ cacheHit = FALSE
    /\ returned = 0
    /\ warned = FALSE
    /\ raised = FALSE
    /\ startup = <<>>
    /\ appended = <<>>
    /\ writes = <<>>

\* --------------------------------------------------------------- actions
\* Lines 112-113 in a new browser session (the first one, or a reload):
\* "history" is not in st.session_state, so load_stats().get("history", []).
SessionStart ==
    LET r == LoadStats(cache, file) IN
    /\ cache' = r.cache
    /\ ret' = r.val
    /\ cacheHit' = r.hit
    /\ lastOp' = "load"
    /\ returned' = 0
    /\ warned' = FALSE
    /\ IF r.val.tag = "nonobject"
       THEN \* the loaded value has no .get: AttributeError at line 113
            /\ session' = "crashed" /\ history' = <<>> /\ raised' = TRUE
       ELSE IF r.val.tag = "histnonlist"
       THEN /\ session' = "nonlist" /\ history' = <<>> /\ raised' = FALSE
       ELSE /\ session' = "ok"
            /\ history' = (IF r.val.tag = "nohist" THEN <<>> ELSE r.val.hist)
            /\ raised' = FALSE
    /\ startup' = IF session = "none" THEN history' ELSE startup
    /\ UNCHANGED <<file, nextId, appended, writes>>

\* store_result (lines 157-172), reached from the Waste Analyser handler.
StoreResult(outcome) ==
    /\ session \in {"ok", "nonlist"}
    /\ Len(appended) < MaxAppends
    /\ lastOp' = "store"
    /\ IF session = "nonlist"
       THEN \* history has no insert(): the exception leaves store_result
            \* (the id drawn at line 158 is dropped with the entry)
            /\ raised' = TRUE
            /\ returned' = 0
            /\ warned' = FALSE
            /\ UNCHANGED <<file, cache, history, nextId, appended, writes>>
       ELSE LET h == InsertFront(nextId, history)
                s == SaveStats(h, outcome, cache, file)
            IN /\ nextId' = nextId + 1
               /\ history' = h
               /\ appended' = Append(appended, nextId)
               /\ writes' = Append(writes, outcome)
               /\ file' = s.file
               /\ cache' = s.cache
               /\ warned' = s.warned
               /\ raised' = s.raised
               /\ returned' = IF s.raised THEN 0 ELSE nextId
    /\ UNCHANGED <<session, ret, cacheHit, startup>>

\* ------------------------------------------------- history store: claims
AllWritesOk == \A i \in 1..Len(writes) : writes[i] = "ok"

SomeWriteOk == \E i \in 1..Len(writes) : writes[i] = "ok"

\* The writes that opened the file ("ok" or "dump_fails"), oldest first.
Touching == SelectSeq(writes, LAMBDA o : o # "open_fails")

\* The most recent write that opened the file completed.
LastTouchOk == Len(Touching) > 0 /\ Touching[Len(Touching)] = "ok"

\* The entry of the most recent successful append (0: none).
LastOkEntry ==
    LET ok == {i \in 1..Len(writes) : writes[i] = "ok"} IN
    IF ok = {} THEN 0 ELSE appended[CHOOSE i \in ok : \A j \in ok : j <= i]

Elems(s) == {s[i] : i \in 1..Len(s)}

\* C2: history is most-recent-first.  When every append so far has been
\* written successfully, load_stats() returns {"history": L} with L the
\* appended entries in reverse order of appending (so [B, A] after A then B)
\* in front of the list loaded at start-up.
C2_MostRecentFirst ==
    (lastOp = "load" /\ Len(appended) >= 1 /\ AllWritesOk)
        => ret = FileOf("histlist", Reverse(appended) \o startup)

\* C2 witness: two appends, both written, then a load that reads the file
\* and finds them in front of a non-empty start-up list.
C2_Witness ==
    /\ lastOp = "load" /\ ~cacheHit
    /\ Len(appended) = 2 /\ AllWritesOk /\ Len(startup) >= 1
    /\ SubSeq(ret.hist, 1, 2) = <<appended[2], appended[1]>>

\* C3 as claimed: every load_stats call made after a successful append
\* returns the content of the backing file at that moment.
C3_Original ==
    (lastOp = "load" /\ SomeWriteOk) => ret = ReadStats(file)

\* C3 amended: a load_stats call made when the most recent write that opened
\* the file succeeded returns the content of the backing file at that moment,
\* and that content holds the entry of the last successful append.
C3_CacheFresh ==
    (lastOp = "load" /\ LastTouchOk)
        => /\ ret = ReadStats(file)
           /\ ret.tag = "histlist"
           /\ LastOkEntry \in Elems(ret.hist)

\* C3 witness: a load filled the cache, an append was then written, and the
\* next load read the file again and returned the new entry first.
C3_Witness ==
    /\ lastOp = "load" /\ ~cacheHit /\ LastTouchOk
    /\ Len(appended) >= 2
    /\ ret.hist[1] = LastOkEntry
    /\ Len(startup) < Len(ret.hist) - 1

\* C7: a failed write is a warning only.  After a store_result whose write
\* failed, the new entry was returned, it is the first element of the
\* in-memory history, a warning was shown and no exception left the call;
\* and every store_result keeps the entries already in the in-memory list,
\* in order, behind the new one.
C7_StateAfterFailedWrite ==
    (lastOp = "store" /\ session = "ok" /\ Len(writes) >= 1
        /\ writes[Len(writes)] # "ok")
        => /\ ~raised
           /\ warned
           /\ returned = appended[Len(appended)]
           /\ Len(history) >= 1 /\ history[1] = returned

C7_AppendKeepsEntries ==
    (lastOp' = "store" /\ session = "ok")
        => /\ Len(history') = Len(history) + 1
           /\ SubSeq(history', 2, Len(history')) = history

C7_WriteFailureNonFatal ==
    [](C7_StateAfterFailedWrite) /\ [][C7_AppendKeepsEntries]_vars

\* C7 witness: a write failed, a later append succeeded, and the entry of
\* the failed write is still in the in-memory list behind the newer one.
C7_Witness ==
    /\ lastOp = "store" /\ session = "ok" /\ Len(writes) = 2
    /\ writes[1] = "dump_fails" /\ writes[2] = "ok"
    /\ history[2] = appended[1] /\ history[1] = appended[2]
    /\ file.hist = history

\* C8 as claimed: whatever the backing file holds, the start-up load raises
\* nothing and leaves a list as the session history, an empty one when the
\* file is absent or unparsable.
C8_LoadNeverFails ==
    lastOp = "load"
        => /\ ~raised
           /\ session = "ok"
           /\ (file.tag \in {"absent", "unparsable"} /\ ~cacheHit => history = <<>>)

\* ============================================================ normaliser
\* IMPACT_LABELS has four entries (lines 70-75).
NumLabels == 4

Tuple4 == 1..NumLabels

Sum4(t) == t[1] + t[2] + t[3] + t[4]

\* round(num / den, 1) in tenths, for num >= 0 and den > 0.  Python rounds
\* the double num/den correctly to one decimal; a tie (an odd multiple of
\* 0.05) goes to the even tenth when the double holds it exactly.  With the
\* values of this model every tie is a multiple of 0.25, which a double holds
\* exactly, and every other quotient is further from a tie than the error of
\* the division, so the result is round-half-even of the exact quotient.
Round1(num, den) ==
    LET q == (num * 10) \div den
        r == (num * 10) % den
    IN IF 2 * r > den \/ (2 * r = den /\ q % 2 = 1) THEN q + 1 ELSE q

\* sum(float(imp.get(k, 0)) for k in IMPACT_LABELS) or 1
Total(t) == IF Sum4(t) = 0 THEN 1 ELSE Sum4(t)

\* Mutant of Normalize: fractions of the total, the factor 100 left out.
NormalizeNoPercent(t) == [k \in Tuple4 |-> Round1(t[k], Total(t))]

\* {k: round(float(imp.get(k, 0)) * 100 / total, 1) for k in IMPACT_LABELS}
Normalize(t) == [k \in Tuple4 |-> Round1(t[k] * 100, Total(t))]

NormIdle == raw = <<0, 0, 0, 0>> /\ out = <<0, 0, 0, 0>> /\ out2 = <<0, 0, 0, 0>>
            /\ npc = "idle"

\* One-decimal percentages (in tenths) that a response may already hold.
NormValues == {0, 1, 167, 250, 333, 334, 499, 500, 999, 1000}

\* The breakdowns over NormValues that sum to exactly 100.0.
NormalizedInputs == {t \in [Tuple4 -> NormValues] : Sum4(t) = 1000}

NormInit ==
    /\ raw \in [Tuple4 -> 0..MaxRaw] \cup NormalizedInputs
    /\ out = <<0, 0, 0, 0>>
    /\ out2 = <<0, 0, 0, 0>>
    /\ npc = "input"

\* Lines 206-208 on the response's impact_breakdown.
NormalizeRaw ==
    /\ npc = "input"
    /\ out' = Normalize(raw)
    /\ npc' = "once"
    /\ UNCHANGED <<raw, out2>>

\* Lines 206-208 on a response that holds an already normalised breakdown.
NormalizeAgain ==
    /\ npc = "once"
    /\ out2' = Normalize(out)
    /\ npc' = "twice"
    /\ UNCHANGED <<raw, out>>

Abs(x) == IF x < 0 THEN -x ELSE x

\* C1 as claimed: for every non-negative raw 4-tuple, the all-zero one
\* included, the normalised breakdown sums to 100.0 within 0.1.
C1_SumIs100 ==
    npc \in {"once", "twice"} => Abs(Sum4(out) - 1000) <= 1

\* C9 as claimed: normalising a breakdown the normaliser has output, whose
\* one-decimal values sum to 100 within 0.1, yields the same four values.
C9_Original ==
    (npc = "twice" /\ Abs(Sum4(out) - 1000) <= 1) => out2 = out

\* C9 amended: normalising a breakdown of one-decimal values that sum to
\* exactly 100.0 yields the same four values, whether the breakdown is the
\* normaliser's own output or arrives in the response.
C9_IdempotentOnExactSum ==
    /\ (npc = "twice" /\ Sum4(out) = 1000) => out2 = out
    /\ (npc \in {"once", "twice"} /\ Sum4(raw) = 1000) => out = raw

\* C9 witness: a raw tuple whose normalised values are not whole percentages
\* and sum to exactly 100.0, normalised a second time.
C9_Witness ==
    /\ npc = "twice"
    /\ Sum4(raw) # 1000
    /\ Sum4(out) = 1000
    /\ \E k \in Tuple4 : out[k] % 10 # 0
    /\ out2 = out

\* ============================================================ extraction
\* The characters of the enumerated responses: braces, the double quote, the
\* colon and the digit 1 (a JSON number, and plain text outside an object).
Quote == "\""

Chars == {"{", "}", Quote, ":", "1"}

\* text[:200] at line 202.
ExcerptLen == 200

Pad(n) == [i \in 1..n |-> "1"]

\* Responses longer than the excerpt: no brace at all, and an opening brace
\* with no closing one.
LongTexts == {Pad(ExcerptLen + 1), <<"{">> \o Pad(ExcerptLen + 1)}

ShortTexts == UNION {[1..n -> Chars] : n \in 0..MaxTextLen}

\* str.find / str.rfind, 1-based; 0 stands for Python's -1.
Find(s, c) ==
    IF \E i \in 1..Len(s) : s[i] = c
    THEN CHOOSE i \in 1..Len(s) : s[i] = c /\ \A j \in 1..(i - 1) : s[j] # c
    ELSE 0

RFind(s, c) ==
    IF \E i \in 1..Len(s) : s[i] = c
    THEN CHOOSE i \in 1..Len(s) : s[i] = c /\ \A j \in (i + 1)..Len(s) : s[j] # c
    ELSE 0

Take(s, n) == SubSeq(s, 1, IF Len(s) < n THEN Len(s) ELSE n)

At(s, i) == IF i >= 1 /\ i <= Len(s) THEN s[i] ELSE "eof"

\* json.loads on a document over Chars.  Each Parse operator takes the index
\* of the first character of a construct and returns the index after it, or
\* 0 when the construct is malformed.
ParseString(s, i) ==
    IF At(s, i) # Quote THEN 0
    ELSE IF \E j \in (i + 1)..Len(s) : s[j] = Quote
         THEN 1 + CHOOSE j \in (i + 1)..Len(s) :
                     s[j] = Quote /\ \A k \in (i + 1)..(j - 1) : s[k] # Quote
         ELSE 0

ParseNumber(s, i) ==
    IF At(s, i) # "1" THEN 0
    ELSE 1 + CHOOSE j \in i..Len(s) :
                 /\ \A k \in i..j : s[k] = "1"
                 /\ At(s, j + 1) # "1"

RECURSIVE ParseValue(_, _)
ParseValue(s, i) ==
    IF At(s, i) = "1" THEN ParseNumber(s, i)
    ELSE IF At(s, i) = Quote THEN ParseString(s, i)
    ELSE IF At(s, i) = "{"
         THEN IF At(s, i + 1) = "}" THEN i + 2
              ELSE LET k == ParseString(s, i + 1) IN
                   IF k = 0 \/ At(s, k) # ":" THEN 0
                   ELSE LET v == ParseValue(s, k + 1) IN
                        IF v = 0 \/ At(s, v) # "}" THEN 0 ELSE v + 1
    ELSE 0

\* json.loads(s) returns (rather than raising JSONDecodeError).
JsonLoads(s) == Len(s) > 0 /\ ParseValue(s, 1) = Len(s) + 1

NoResult == [kind |-> "none", err |-> "none", excerpt |-> <<>>]

\* Lines 181-213: [kind, err, excerpt].
CallGemini(key, t) ==
    LET first == Find(t, "{")
        last == RFind(t, "}")
    IN IF ~key
       THEN [kind |-> "error", err |-> "RuntimeError: GEMINI_API_KEY is not set",
             excerpt |-> <<>>]
       ELSE IF first = 0 \/ last = 0
       THEN [kind |-> "error", err |-> "RuntimeError: Gemini did not return JSON",
             excerpt |-> Take(t, ExcerptLen)]
       ELSE IF ~JsonLoads(SubSeq(t, first, last))
       THEN [kind |-> "error", err |-> "JSONDecodeError", excerpt |-> <<>>]
       ELSE [kind |-> "returned", err |-> "none", excerpt |-> <<>>]

ExtractIdle == apiKey = FALSE /\ text = <<>> /\ xres = NoResult /\ xpc = "idle"

ExtractInit ==
    /\ apiKey \in BOOLEAN
    /\ text \in ShortTexts \cup LongTexts
    /\ xres = NoResult
    /\ xpc = "call"

CallGeminiForWaste ==
    /\ xpc = "call"
    /\ xres' = CallGemini(apiKey, text)
    /\ xpc' = "done"
    /\ UNCHANGED <<apiKey, text>>

\* The response has no '{', no '}', or the text from the first '{' to the
\* last '}' does not parse.
Malformed(t) ==
    \/ Find(t, "{") = 0
    \/ RFind(t, "}") = 0
    \/ ~JsonLoads(SubSeq(t, Find(t, "{"), RFind(t, "}")))

\* C6 as claimed: with the API key set, a malformed response makes
\* call_gemini_for_waste fail with the error that names the missing JSON and
\* carries the first 200 characters of the raw response.
C6_MalformedCarriesExcerpt ==
    (xpc = "done" /\ apiKey /\ Malformed(text))
        => xres = [kind |-> "error",
                   err |-> "RuntimeError: Gemini did not return JSON",
                   excerpt |-> Take(text, ExcerptLen)]

\* ======================================================= image placement
\* PDF layout constants (mm), lines 65-68.
PAGE_W == 210

MARGIN == 15

EFF_W == PAGE_W - 2 * MARGIN

\* Lengths are exact rationals [n, d] with d > 0; the code computes them in
\* doubles, whose rounding is below anything the claims measure.
Rat(n, d) == [n |-> n, d |-> d]

RInt(k) == Rat(k, 1)

RAdd(a, b) == Rat(a.n * b.d + b.n * a.d, a.d * b.d)

RMul(a, b) == Rat(a.n * b.n, a.d * b.d)

RLeq(a, b) == a.n * b.d <= b.n * a.d

REq(a, b) == a.n * b.d = b.n * a.d

RMax(a, b) == IF RLeq(a, b) THEN b ELSE a

\* scale = EFF_W / (w1 + gutter + w2), line 241.
Scale(w1, w2, gutter) == Rat(EFF_W, w1 + gutter + w2)

\* Padding under the images, line 251.
ImagePad == 5

\* Lines 232-252: the geometry handed to pdf.image and pdf.set_y.
PlaceTwoImages(r) ==
    LET h1 == RMul(RInt(r.w1), Rat(r.im1[2], r.im1[1]))     \* w1 * (i1h / i1w)
        h2 == RMul(RInt(r.w2), Rat(r.im2[2], r.im2[1]))
        over == (r.w1 + r.gutter + r.w2) > EFF_W
        sc == IF over THEN Scale(r.w1, r.w2, r.gutter) ELSE RInt(1)
        sw1 == IF over THEN RMul(RInt(r.w1), sc) ELSE RInt(r.w1)
        sw2 == IF over THEN RMul(RInt(r.w2), sc) ELSE RInt(r.w2)
        sh1 == IF over THEN RMul(h1, sc) ELSE h1
        sh2 == IF over THEN RMul(h2, sc) ELSE h2
    IN [w1 |-> sw1, w2 |-> sw2, h1 |-> sh1, h2 |-> sh2,
        x1 |-> RInt(MARGIN),
        x2 |-> RAdd(RAdd(RInt(MARGIN), sw1), RInt(r.gutter)),
        y |-> RAdd(RAdd(RInt(r.y), RMax(sh1, sh2)), RInt(ImagePad))]

Widths == {24 * k : k \in 1..MaxWidthSteps}

\* 6.0 is the default gutter (line 227) and the one line 279 passes.
Gutters == {0, 6, 12}

\* Pixel sizes (width, height) of the two images.
ImageSizes == {<<1, 1>>, <<4, 3>>, <<3, 4>>}

NotPlaced == [w1 |-> RInt(0), w2 |-> RInt(0), h1 |-> RInt(0), h2 |-> RInt(0),
              x1 |-> RInt(0), x2 |-> RInt(0), y |-> RInt(0)]

NoRequest == [w1 |-> 0, w2 |-> 0, gutter |-> 0, im1 |-> <<1, 1>>, im2 |-> <<1, 1>>,
              y |-> 0]

PlaceIdle == req = NoRequest /\ placed = NotPlaced /\ ppc = "idle"

PlaceInit ==
    /\ req \in [w1 : Widths, w2 : Widths, gutter : Gutters,
                im1 : ImageSizes, im2 : ImageSizes, y : {MARGIN + 20}]
    /\ placed = NotPlaced
    /\ ppc = "call"

PlaceImages ==
    /\ ppc = "call"
    /\ placed' = PlaceTwoImages(req)
    /\ ppc' = "placed"
    /\ UNCHANGED req

\* C5 as claimed: when w1 + gutter + w2 exceeds the content width, both
\* widths and both heights are multiplied by one factor, the placed pair
\* (first image, gutter, second image) spans exactly the content width, and
\* the right edge of the second image stays within the right margin.
C5_PairFitsContentWidth ==
    (ppc = "placed" /\ req.w1 + req.gutter + req.w2 > EFF_W)
        => /\ REq(RMul(placed.w1, RInt(req.w2)), RMul(placed.w2, RInt(req.w1)))
           /\ REq(RMul(placed.h1, RInt(req.im1[1])),
                  RMul(placed.w1, RInt(req.im1[2])))
           /\ REq(RMul(placed.h2, RInt(req.im2[1])),
                  RMul(placed.w2, RInt(req.im2[2])))
           /\ REq(RAdd(RAdd(placed.w1, RInt(req.gutter)), placed.w2), RInt(EFF_W))
           /\ RLeq(RAdd(placed.x2, placed.w2), RInt(MARGIN + EFF_W))

\* ================================================================ report
\* Text is a sequence of Unicode code points.
\* line 254: "EcoVision Report"
TxtDefaultTitle ==
    <<69, 99, 111, 86, 105, 115, 105, 111, 110, 32, 82, 101, 112, 111, 114,
      116>>

\* a title with a bullet: "EcoVision (U+2022) Report"
TxtBulletTitle ==
    <<69, 99, 111, 86, 105, 115, 105, 111, 110, 32, 8226, 32, 82, 101, 112,
      111, 114, 116>>

\* line 265: "Generated: "
TxtGenerated ==
    <<71, 101, 110, 101, 114, 97, 116, 101, 100, 58, 32>>

\* line 282: "Analysis Summary"
TxtSummary ==
    <<65, 110, 97, 108, 121, 115, 105, 115, 32, 83, 117, 109, 109, 97, 114,
      121>>

\* line 283: " (U+2022) "
TxtSepUnicode ==
    <<32, 8226, 32>>

\* line 283: " - "
TxtSepAscii ==
    <<32, 45, 32>>

\* line 286: "Category: "
TxtCategory ==
    <<67, 97, 116, 101, 103, 111, 114, 121, 58, 32>>

\* line 286: "Confidence: "
TxtConfidence ==
    <<67, 111, 110, 102, 105, 100, 101, 110, 99, 101, 58, 32>>

\* line 288: "Notes: "
TxtNotes ==
    <<78, 111, 116, 101, 115, 58, 32>>

\* line 292: "What This Image Shows:"
TxtShowsHead ==
    <<87, 104, 97, 116, 32, 84, 104, 105, 115, 32, 73, 109, 97, 103, 101,
      32, 83, 104, 111, 119, 115, 58>>

\* line 295: "This appears to show "
TxtShowsA ==
    <<84, 104, 105, 115, 32, 97, 112, 112, 101, 97, 114, 115, 32, 116, 111,
      32, 115, 104, 111, 119, 32>>

\* lines 295-296: " waste. The materials visible require proper sorting and handling to prevent contamination."
TxtShowsB ==
    <<32, 119, 97, 115, 116, 101, 46, 32, 84, 104, 101, 32, 109, 97, 116,
      101, 114, 105, 97, 108, 115, 32, 118, 105, 115, 105, 98, 108, 101, 32,
      114, 101, 113, 117, 105, 114, 101, 32, 112, 114, 111, 112, 101, 114,
      32, 115, 111, 114, 116, 105, 110, 103, 32, 97, 110, 100, 32, 104, 97,
      110, 100, 108, 105, 110, 103, 32, 116, 111, 32, 112, 114, 101, 118,
      101, 110, 116, 32, 99, 111, 110, 116, 97, 109, 105, 110, 97, 116, 105,
      111, 110, 46>>

\* line 302: "How to Recycle / Dispose It:"
TxtHowHead ==
    <<72, 111, 119, 32, 116, 111, 32, 82, 101, 99, 121, 99, 108, 101, 32,
      47, 32, 68, 105, 115, 112, 111, 115, 101, 32, 73, 116, 58>>

\* line 309: "Why Improper Disposal Is Harmful:"
TxtHarmHead ==
    <<87, 104, 121, 32, 73, 109, 112, 114, 111, 112, 101, 114, 32, 68, 105,
      115, 112, 111, 115, 97, 108, 32, 73, 115, 32, 72, 97, 114, 109, 102,
      117, 108, 58>>

\* lines 312-313: "Improper disposal can contaminate soil and water, attract pests, release greenhouse gases and toxins, and harm local ecosystems and health."
TxtHarm ==
    <<73, 109, 112, 114, 111, 112, 101, 114, 32, 100, 105, 115, 112, 111,
      115, 97, 108, 32, 99, 97, 110, 32, 99, 111, 110, 116, 97, 109, 105,
      110, 97, 116, 101, 32, 115, 111, 105, 108, 32, 97, 110, 100, 32, 119,
      97, 116, 101, 114, 44, 32, 97, 116, 116, 114, 97, 99, 116, 32, 112,
      101, 115, 116, 115, 44, 32, 114, 101, 108, 101, 97, 115, 101, 32, 103,
      114, 101, 101, 110, 104, 111, 117, 115, 101, 32, 103, 97, 115, 101,
      115, 32, 97, 110, 100, 32, 116, 111, 120, 105, 110, 115, 44, 32, 97,
      110, 100, 32, 104, 97, 114, 109, 32, 108, 111, 99, 97, 108, 32, 101,
      99, 111, 115, 121, 115, 116, 101, 109, 115, 32, 97, 110, 100, 32, 104,
      101, 97, 108, 116, 104, 46>>

\* line 319: "Eco Tip of the Day:"
TxtTipHead ==
    <<69, 99, 111, 32, 84, 105, 112, 32, 111, 102, 32, 116, 104, 101, 32,
      68, 97, 121, 58>>

\* line 324: "Impact Breakdown (%):"
TxtImpactHead ==
    <<73, 109, 112, 97, 99, 116, 32, 66, 114, 101, 97, 107, 100, 111, 119,
      110, 32, 40, 37, 41, 58>>

\* line 333: "EcoVision (U+2022) Automated insight. Human responsibility."
TxtFooter ==
    <<69, 99, 111, 86, 105, 115, 105, 111, 110, 32, 8226, 32, 65, 117, 116,
      111, 109, 97, 116, 101, 100, 32, 105, 110, 115, 105, 103, 104, 116,
      46, 32, 72, 117, 109, 97, 110, 32, 114, 101, 115, 112, 111, 110, 115,
      105, 98, 105, 108, 105, 116, 121, 46>>

\* ECO_TIPS[0]: "Carry a reusable bottle and refill instead of buying plastic."
Tip0 ==
    <<67, 97, 114, 114, 121, 32, 97, 32, 114, 101, 117, 115, 97, 98, 108,
      101, 32, 98, 111, 116, 116, 108, 101, 32, 97, 110, 100, 32, 114, 101,
      102, 105, 108, 108, 32, 105, 110, 115, 116, 101, 97, 100, 32, 111,
      102, 32, 98, 117, 121, 105, 110, 103, 32, 112, 108, 97, 115, 116, 105,
      99, 46>>

\* ECO_TIPS[1]: "Keep separate bins for dry and wet waste to boost recycling quality."
Tip1 ==
    <<75, 101, 101, 112, 32, 115, 101, 112, 97, 114, 97, 116, 101, 32, 98,
      105, 110, 115, 32, 102, 111, 114, 32, 100, 114, 121, 32, 97, 110, 100,
      32, 119, 101, 116, 32, 119, 97, 115, 116, 101, 32, 116, 111, 32, 98,
      111, 111, 115, 116, 32, 114, 101, 99, 121, 99, 108, 105, 110, 103, 32,
      113, 117, 97, 108, 105, 116, 121, 46>>

\* ECO_TIPS[2]: "Say no to single-use cutlery(U+2014)travel with a compact reusable set."
Tip2 ==
    <<83, 97, 121, 32, 110, 111, 32, 116, 111, 32, 115, 105, 110, 103, 108,
      101, 45, 117, 115, 101, 32, 99, 117, 116, 108, 101, 114, 121, 8212,
      116, 114, 97, 118, 101, 108, 32, 119, 105, 116, 104, 32, 97, 32, 99,
      111, 109, 112, 97, 99, 116, 32, 114, 101, 117, 115, 97, 98, 108, 101,
      32, 115, 101, 116, 46>>

\* ECO_TIPS[3]: "Compost your kitchen scraps to cut methane from landfills."
Tip3 ==
    <<67, 111, 109, 112, 111, 115, 116, 32, 121, 111, 117, 114, 32, 107,
      105, 116, 99, 104, 101, 110, 32, 115, 99, 114, 97, 112, 115, 32, 116,
      111, 32, 99, 117, 116, 32, 109, 101, 116, 104, 97, 110, 101, 32, 102,
      114, 111, 109, 32, 108, 97, 110, 100, 102, 105, 108, 108, 115, 46>>

\* ECO_TIPS[4]: "Buy in bulk and choose minimal packaging to reduce waste."
Tip4 ==
    <<66, 117, 121, 32, 105, 110, 32, 98, 117, 108, 107, 32, 97, 110, 100,
      32, 99, 104, 111, 111, 115, 101, 32, 109, 105, 110, 105, 109, 97, 108,
      32, 112, 97, 99, 107, 97, 103, 105, 110, 103, 32, 116, 111, 32, 114,
      101, 100, 117, 99, 101, 32, 119, 97, 115, 116, 101, 46>>

\* ECO_TIPS[5]: "Fix and reuse glass jars as storage containers."
Tip5 ==
    <<70, 105, 120, 32, 97, 110, 100, 32, 114, 101, 117, 115, 101, 32, 103,
      108, 97, 115, 115, 32, 106, 97, 114, 115, 32, 97, 115, 32, 115, 116,
      111, 114, 97, 103, 101, 32, 99, 111, 110, 116, 97, 105, 110, 101, 114,
      115, 46>>

\* ECO_TIPS[6]: "Switch to rechargeable batteries to cut e-waste."
Tip6 ==
    <<83, 119, 105, 116, 99, 104, 32, 116, 111, 32, 114, 101, 99, 104, 97,
      114, 103, 101, 97, 98, 108, 101, 32, 98, 97, 116, 116, 101, 114, 105,
      101, 115, 32, 116, 111, 32, 99, 117, 116, 32, 101, 45, 119, 97, 115,
      116, 101, 46>>

\* ECO_TIPS[7]: "Donate old electronics to certified e-waste recyclers."
Tip7 ==
    <<68, 111, 110, 97, 116, 101, 32, 111, 108, 100, 32, 101, 108, 101, 99,
      116, 114, 111, 110, 105, 99, 115, 32, 116, 111, 32, 99, 101, 114, 116,
      105, 102, 105, 101, 100, 32, 101, 45, 119, 97, 115, 116, 101, 32, 114,
      101, 99, 121, 99, 108, 101, 114, 115, 46>>

\* ECO_TIPS[8]: "Bring your own shopping bag(U+2014)avoid plastic carry bags."
Tip8 ==
    <<66, 114, 105, 110, 103, 32, 121, 111, 117, 114, 32, 111, 119, 110, 32,
      115, 104, 111, 112, 112, 105, 110, 103, 32, 98, 97, 103, 8212, 97,
      118, 111, 105, 100, 32, 112, 108, 97, 115, 116, 105, 99, 32, 99, 97,
      114, 114, 121, 32, 98, 97, 103, 115, 46>>

\* ECO_TIPS[9]: "Use cloth towels instead of paper for everyday cleaning."
Tip9 ==
    <<85, 115, 101, 32, 99, 108, 111, 116, 104, 32, 116, 111, 119, 101, 108,
      115, 32, 105, 110, 115, 116, 101, 97, 100, 32, 111, 102, 32, 112, 97,
      112, 101, 114, 32, 102, 111, 114, 32, 101, 118, 101, 114, 121, 100,
      97, 121, 32, 99, 108, 101, 97, 110, 105, 110, 103, 46>>

\* Lines 77-88.
ECO_TIPS == <<Tip0, Tip1, Tip2, Tip3, Tip4, Tip5, Tip6, Tip7, Tip8, Tip9>>

\* IMPACT_LABELS[0]: "Greenhouse Emissions"
Label0 ==
    <<71, 114, 101, 101, 110, 104, 111, 117, 115, 101, 32, 69, 109, 105,
      115, 115, 105, 111, 110, 115>>

\* IMPACT_LABELS[1]: "Soil Contamination"
Label1 ==
    <<83, 111, 105, 108, 32, 67, 111, 110, 116, 97, 109, 105, 110, 97, 116,
      105, 111, 110>>

\* IMPACT_LABELS[2]: "Water Pollution"
Label2 ==
    <<87, 97, 116, 101, 114, 32, 80, 111, 108, 108, 117, 116, 105, 111, 110>>

\* IMPACT_LABELS[3]: "Energy Use"
Label3 ==
    <<69, 110, 101, 114, 103, 121, 32, 85, 115, 101>>

\* Lines 70-75.
IMPACT_LABELS == <<Label0, Label1, Label2, Label3>>

\* a category: "mixed"
CatMixed ==
    <<109, 105, 120, 101, 100>>

\* a category: "e-waste"
CatEWaste ==
    <<101, 45, 119, 97, 115, 116, 101>>

\* a category with a bullet: "pet(U+2022)hdpe"
CatBullet ==
    <<112, 101, 116, 8226, 104, 100, 112, 101>>

\* notes: ""
NotesEmpty ==
    <<>>

\* notes with a bullet: "Rinse (U+2022) dry"
NotesBullet ==
    <<82, 105, 110, 115, 101, 32, 8226, 32, 100, 114, 121>>

\* notes with a Latin-1 letter: "Caf(U+00E9) cup"
NotesLatin ==
    <<67, 97, 102, 233, 32, 99, 117, 112>>

\* notes with a symbol outside Latin-1: "PET (U+267B)"
NotesSymbol ==
    <<80, 69, 84, 32, 9851>>

\* a disposal step: "Rinse it"
StepPlain ==
    <<82, 105, 110, 115, 101, 32, 105, 116>>

\* a disposal step with a bullet: "Bin (U+2022) lid on"
StepBullet ==
    <<66, 105, 110, 32, 8226, 32, 108, 105, 100, 32, 111, 110>>

\* "•" (U+2022), the character lines 264-335 replace.
Bullet == 8226

\* "-" (U+002D), its replacement.
Hyphen == 45

\* The built-in Helvetica is written in Latin-1: pdf.cell and pdf.multi_cell
\* raise an encoding error for a code point above U+00FF.
Latin1Max == 255

Encodable(c) == c <= Latin1Max

\* t.replace("•", "-")
ReplaceBullet(t) == [i \in 1..Len(t) |-> IF t[i] = Bullet THEN Hyphen ELSE t[i]]

\* (t if unicode_ok else t.replace("•", "-"))
Sub(t, ok) == IF ok THEN t ELSE ReplaceBullet(t)

IsUpper(c) == c >= 65 /\ c <= 90

IsLower(c) == c >= 97 /\ c <= 122

\* str.title() on text whose letters are ASCII: a letter after a letter is
\* lower-cased, any other letter is upper-cased.
TitleCase(t) ==
    [i \in 1..Len(t) |->
        LET c == t[i]
            inWord == i > 1 /\ (IsUpper(t[i - 1]) \/ IsLower(t[i - 1]))
        IN IF inWord /\ IsUpper(c) THEN c + 32
           ELSE IF ~inWord /\ IsLower(c) THEN c - 32
           ELSE c]

\* str(n) for n >= 0.
RECURSIVE Dec(_)
Dec(n) == IF n < 10 THEN <<48 + n>> ELSE Dec(n \div 10) \o <<48 + (n % 10)>>

\* n formatted to at least w digits (%Y, %m, %d, %H, %M, %S).
RECURSIVE ZeroPad(_, _)
ZeroPad(n, w) == IF Len(Dec(n)) >= w THEN Dec(n) ELSE <<48>> \o ZeroPad(n, w - 1)

\* str of a float with one decimal, from its value in tenths: "25.0".
Tenths(v) == Dec(v \div 10) \o <<46>> \o Dec(v % 10)

\* ---- the calendar (datetime.date)
IsLeap(y) == (y % 4 = 0 /\ y % 100 # 0) \/ y % 400 = 0

DaysInMonth(y, m) ==
    IF m = 2 THEN (IF IsLeap(y) THEN 29 ELSE 28)
    ELSE IF m \in {4, 6, 9, 11} THEN 30 ELSE 31

RECURSIVE DaysBeforeMonth(_, _)
DaysBeforeMonth(y, m) ==
    IF m = 1 THEN 0 ELSE DaysBeforeMonth(y, m - 1) + DaysInMonth(y, m - 1)

DaysBeforeYear(y) ==
    365 * (y - 1) + ((y - 1) \div 4) - ((y - 1) \div 100) + ((y - 1) \div 400)

\* date.toordinal(): 1 for 0001-01-01.
Toordinal(d) == DaysBeforeYear(d.year) + DaysBeforeMonth(d.year, d.month) + d.day

\* The day of the year, 1 for 1 January.
DayOfYear(d) == DaysBeforeMonth(d.year, d.month) + d.day

\* Mutant of EcoTipOfTheDay: indexed by the day of the year.
EcoTipByYearDay(d) == ECO_TIPS[(DayOfYear(d) % Len(ECO_TIPS)) + 1]

\* eco_tip_of_the_day(), lines 90-92 (ECO_TIPS is 1-based here).
EcoTipOfTheDay(d) == ECO_TIPS[(Toordinal(d) % Len(ECO_TIPS)) + 1]

\* datetime.now().strftime('%Y-%m-%d %H:%M:%S')
Stamp(d, c) ==
    ZeroPad(d.year, 4) \o <<45>> \o ZeroPad(d.month, 2) \o <<45>> \o ZeroPad(d.day, 2)
    \o <<32>> \o ZeroPad(c[1], 2) \o <<58>> \o ZeroPad(c[2], 2) \o <<58>>
    \o ZeroPad(c[3], 2)

Call(kind, t) == [kind |-> kind, txt |-> t]

\* The number of text-emitting calls of one build: eight up to the disposal
\* heading, one per disposal step, five up to the impact heading, one per
\* impact label and the footer.
NumCalls(r) == 8 + Len(r.steps) + 5 + Len(IMPACT_LABELS) + 1

\* The i-th text-emitting call of make_pdf_report with the text it is handed
\* (lines 264-336); n is the number of disposal steps.
ReportCall(i, r, ttl, d, c, ok) ==
    LET n == Len(r.steps) IN
    CASE i = 1 -> Call("title", Sub(ttl, ok))                              \* 264
      [] i = 2 -> Call("generated", TxtGenerated \o Stamp(d, c))           \* 265
      [] i = 3 -> Call("heading", TxtSummary)                              \* 282
      [] i = 4 -> Call("summary",                                          \* 283-286
                       TxtCategory \o TitleCase(r.category)
                       \o (IF ok THEN TxtSepUnicode ELSE TxtSepAscii)
                       \o TxtConfidence \o Tenths(r.confidence) \o <<37>>)
      [] i = 5 -> Call("notes", TxtNotes \o Sub(r.notes, ok))              \* 287-288
      [] i = 6 -> Call("heading", TxtShowsHead)                            \* 292
      [] i = 7 -> Call("shows", TxtShowsA \o r.category \o TxtShowsB)      \* 293-298
      [] i = 8 -> Call("heading", TxtHowHead)                              \* 302
      [] i > 8 /\ i <= 8 + n ->                                            \* 303-305
                  Call("step", Dec(i - 8) \o <<46, 32>> \o Sub(r.steps[i - 8], ok))
      [] i = n + 9 -> Call("heading", TxtHarmHead)                         \* 309
      [] i = n + 10 -> Call("harm", TxtHarm)                               \* 310-315
      [] i = n + 11 -> Call("heading", TxtTipHead)                         \* 319
      [] i = n + 12 -> Call("tip", EcoTipOfTheDay(d))                      \* 320
      [] i = n + 13 -> Call("heading", TxtImpactHead)                      \* 324
      [] i > n + 13 /\ i <= n + 13 + Len(IMPACT_LABELS) ->                 \* 325-327
                  Call("impact", <<45, 32>> \o IMPACT_LABELS[i - n - 13] \o <<58, 32>>
                                 \o Tenths(r.impact[i - n - 13]) \o <<37>>)
      [] OTHER -> Call("footer", Sub(TxtFooter, ok))                       \* 333-336

\* ---- inputs
Dates == [year : FirstYear..(FirstYear + MaxYears - 1), month : 1..12, day : 1..MaxDay]

\* The modelled date that follows d (some days later), d itself at the end.
LaterDate(d) ==
    LET later == {e \in Dates : Toordinal(e) > Toordinal(d)} IN
    IF later = {} THEN d
    ELSE CHOOSE e \in later : \A f \in later : Toordinal(e) <= Toordinal(f)

Records ==
    {[category |-> CatMixed, confidence |-> 550, notes |-> NotesEmpty,
      steps |-> <<>>, impact |-> Normalize(<<1, 1, 1, 1>>)],
     [category |-> CatEWaste, confidence |-> 1000, notes |-> NotesLatin,
      steps |-> <<StepPlain>>, impact |-> Normalize(<<0, 1, 1, 4>>)],
     [category |-> CatBullet, confidence |-> 875, notes |-> NotesBullet,
      steps |-> <<StepPlain, StepBullet>>, impact |-> Normalize(<<0, 0, 0, 0>>)],
     [category |-> CatMixed, confidence |-> 0, notes |-> NotesSymbol,
      steps |-> <<StepBullet>>, impact |-> Normalize(<<3, 3, 3, 7>>)]}

Titles == {TxtDefaultTitle, TxtBulletTitle}

Clocks == {<<9, 5, 0>>, <<23, 59, 59>>}

NoCall == Call("none", <<>>)

NoDate == [year |-> 0, month |-> 0, day |-> 0]

NoPrev == [day |-> NoDate, tip |-> <<>>, category |-> <<>>]

ReportIdle ==
    /\ rec = [category |-> <<>>, confidence |-> 0, notes |-> <<>>, steps |-> <<>>,
              impact |-> <<0, 0, 0, 0>>]
    /\ today = NoDate /\ unicodeOk = FALSE
    /\ rstep = 0 /\ cur = NoCall /\ rstatus = "idle" /\ tip = <<>> /\ prev = NoPrev

ReportInit ==
    /\ rec \in Records
    /\ today \in Dates
    /\ unicodeOk \in BOOLEAN
    /\ rstep = 0
    /\ cur = NoCall
    /\ rstatus = "building"
    /\ tip = <<>>
    /\ prev = NoPrev

\* One _safe_cell / _safe_multicell call of the build.  The title is the
\* argument of the build, read by the first call; the second call reads the
\* time of day.
EmitText ==
    /\ rstatus = "building"
    /\ rstep < NumCalls(rec)
    /\ rstep' = rstep + 1
    /\ \E ttl \in Titles, c \in Clocks :
          cur' = ReportCall(rstep + 1, rec, ttl, today, c, unicodeOk)
    /\ tip' = IF cur'.kind = "tip" THEN cur'.txt ELSE tip
    /\ rstatus' = IF ~unicodeOk /\ \E i \in 1..Len(cur'.txt) : ~Encodable(cur'.txt[i])
                  THEN "encoding_error"     \* the exception leaves make_pdf_report
                  ELSE "building"
    /\ UNCHANGED <<rec, today, unicodeOk, prev>>

\* pdf.output(dest="S"), lines 339-345.
Output ==
    /\ rstatus = "building"
    /\ rstep = NumCalls(rec)
    /\ rstatus' = "done"
    /\ UNCHANGED <<rec, today, unicodeOk, rstep, cur, tip, prev>>

\* The page runs again (lines 497-505) and builds the report of a record,
\* the same day or a later one; prev keeps the tip of the build just ended.
Rebuild ==
    /\ rstatus \in {"done", "encoding_error"}
    /\ rec' \in Records
    /\ today' \in {today, LaterDate(today)}
    /\ prev' = IF tip # <<>>
               THEN [day |-> today, tip |-> tip, category |-> rec.category]
               ELSE NoPrev
    /\ rstep' = 0
    /\ cur' = NoCall
    /\ rstatus' = "building"
    /\ tip' = <<>>
    /\ UNCHANGED unicodeOk

\* C4 as claimed: without the Unicode font, every text handed to a
\* text-emitting call has no bullet and no character Helvetica cannot
\* encode, and the build meets no encoding error.
C4_FallbackTextEncodable ==
    (~unicodeOk /\ rstep >= 1)
        => /\ \A i \in 1..Len(cur.txt) : cur.txt[i] # Bullet /\ Encodable(cur.txt[i])
           /\ rstatus # "encoding_error"

\* C10 as claimed: the tip a build emits is the entry of ECO_TIPS at index
\* (day of the year) mod (number of tips).
C10_Original ==
    cur.kind = "tip" => cur.txt = ECO_TIPS[(DayOfYear(today) % Len(ECO_TIPS)) + 1]

\* C10 amended: the tip a build emits is the entry of ECO_TIPS at index
\* (proleptic Gregorian ordinal of the current date) mod (number of tips),
\* whatever the record, and it is the tip the previous build emitted when
\* that build ran on the same calendar day.
C10_TipByOrdinal ==
    cur.kind = "tip"
        => /\ cur.txt = ECO_TIPS[(Toordinal(today) % Len(ECO_TIPS)) + 1]
           /\ (prev.day = today => cur.txt = prev.tip)

\* C10 witness: a build emits its tip on the day of an earlier build of a
\* different record, on a date whose day-of-year index is another tip's.
C10_Witness ==
    /\ cur.kind = "tip"
    /\ prev.day = today
    /\ prev.category # rec.category
    /\ prev.tip = cur.txt
    /\ DayOfYear(today) % Len(ECO_TIPS) # Toordinal(today) % Len(ECO_TIPS)

\* ========================================================= the analyser
\* What the environment lets the steps between the AI call and store_result
\* do: fig_pie_impact (line 449) or img.save (line 450) may raise.
RenderOutcomes == {"ok", "chart_raises", "png_raises"}

\* The responses the analyser is given: empty, braces in the wrong order, a
\* brace pair that does not parse, and two JSON objects.
AnalyseTexts ==
    { <<>>, <<"}", "{">>, <<"{", "1", "}">>, <<"{", "}">>,
      <<"{", Quote, Quote, ":", "1", "}">> }

\* The ways a click ends before store_result is called.
FailsBeforeStore == {"no_key", "malformed", "chart_raises", "png_raises"}

AnalyseIdle == lastResult = 0 /\ lastPie = 0 /\ attempt = "none"

AnalyseInit ==
    /\ AnalyseIdle
    /\ apiKey \in BOOLEAN
    /\ text = <<>>
    /\ xres = NoResult
    /\ xpc = "idle"

\* A new browser session: st.session_state is empty, lines 112-113 run.
NewSession ==
    /\ SessionStart
    /\ lastResult' = 0
    /\ lastPie' = 0
    /\ attempt' = "none"
    /\ UNCHANGED extractVars

\* "Analyze with Gemini" clicked with an image uploaded (lines 446-458): the
\* try block runs call_gemini_for_waste, fig_pie_impact, img.save and
\* store_result; any exception is shown by st.error and the two session keys
\* are assigned only after store_result has returned.
AnalyzeClicked(t, render, outcome) ==
    LET r == CallGemini(apiKey, t) IN
    /\ session \in {"ok", "nonlist"}
    /\ text' = t
    /\ xres' = r
    /\ UNCHANGED <<apiKey, xpc>>
    /\ IF r.kind = "error"
       THEN /\ attempt' = (IF apiKey THEN "malformed" ELSE "no_key")
            /\ UNCHANGED <<histVars, lastResult, lastPie>>
       ELSE IF render # "ok"
       THEN /\ attempt' = render
            /\ UNCHANGED <<histVars, lastResult, lastPie>>
       ELSE /\ StoreResult(outcome)
            /\ attempt' = (IF raised' THEN "store_raises" ELSE "ok")
            /\ lastResult' = (IF raised' THEN lastResult ELSE returned')
            /\ lastPie' = (IF raised' THEN lastPie ELSE returned')

\* s with its i-th element removed.
Without(s, i) == SubSeq(s, 1, i - 1) \o SubSeq(s, i + 1, Len(s))

\* C11: failing attempts are frame-preserving and the history only grows.
\* A click that fails before store_result is reached (API key not set,
\* response malformed, chart or image encoding raising) leaves the in-memory
\* history, the backing file and the stored last result unchanged; a click
\* that succeeds makes the history exactly one entry longer, and the entries
\* it held are all still there, unchanged and in the same relative order; no
\* click makes the history shorter.
C11_FailureKeepsState ==
    attempt' \in FailsBeforeStore
        => /\ history' = history
           /\ session' = session
           /\ file' = file
           /\ lastResult' = lastResult

C11_HistoryGrows ==
    attempt' # "none"
        => IF attempt' = "ok"
           THEN /\ Len(history') = Len(history) + 1
                /\ \E i \in 1..Len(history') : Without(history', i) = history
                /\ lastResult' \in Elems(history') \ Elems(history)
           ELSE history' = history

C11_FailedAttemptsFrame ==
    [][C11_FailureKeepsState /\ C11_HistoryGrows]_vars

\* C11 witness: after two successful analyses in a session that loaded a
\* non-empty history, a click failed on the chart; the last result is still
\* the newest entry and the file still holds the whole list.
C11_Witness ==
    /\ attempt = "chart_raises"
    /\ Len(startup) >= 1 /\ Len(history) = Len(startup) + 2
    /\ lastResult = history[1] /\ lastResult = appended[Len(appended)]
    /\ file = FileOf("histlist", history)

\* -------------------------------------------------------- specifications
HistIdle ==
    /\ file = FileOf("absent", <<>>) /\ cache = NoCache /\ session = "none"
    /\ history = <<>> /\ nextId = 1 /\ lastOp = "idle" /\ ret = EmptyStats
    /\ cacheHit = FALSE /\ returned = 0 /\ warned = FALSE /\ raised = FALSE
    /\ startup = <<>> /\ appended = <<>> /\ writes = <<>>

\* The history store.
Init == HistInit /\ NormIdle /\ ExtractIdle /\ PlaceIdle /\ ReportIdle /\ AnalyseIdle

Next ==
    \/ SessionStart /\ UNCHANGED <<normVars, extractVars, placeVars, reportVars, analyseVars>>
    \/ \E outcome \in WriteOutcomes :
          StoreResult(outcome) /\ UNCHANGED <<normVars, extractVars, placeVars, reportVars, analyseVars>>

Spec == Init /\ [][Next]_vars

\* The impact normaliser on every raw 4-tuple.
InitNormalize == NormInit /\ HistIdle /\ ExtractIdle /\ PlaceIdle /\ ReportIdle /\ AnalyseIdle

NextNormalize ==
    \/ NormalizeRaw /\ UNCHANGED <<histVars, extractVars, placeVars, reportVars, analyseVars>>
    \/ NormalizeAgain /\ UNCHANGED <<histVars, extractVars, placeVars, reportVars, analyseVars>>

SpecNormalize == InitNormalize /\ [][NextNormalize]_vars

\* call_gemini_for_waste on every response text.
InitExtract == ExtractInit /\ HistIdle /\ NormIdle /\ PlaceIdle /\ ReportIdle /\ AnalyseIdle

NextExtract ==
    CallGeminiForWaste /\ UNCHANGED <<histVars, normVars, placeVars, reportVars, analyseVars>>

SpecExtract == InitExtract /\ [][NextExtract]_vars

\* _place_two_images on every request.
InitPlace == PlaceInit /\ HistIdle /\ NormIdle /\ ExtractIdle /\ ReportIdle /\ AnalyseIdle

NextPlace ==
    PlaceImages /\ UNCHANGED <<histVars, normVars, extractVars, reportVars, analyseVars>>

SpecPlace == InitPlace /\ [][NextPlace]_vars

\* make_pdf_report on every record, date and font state.
InitReport == ReportInit /\ HistIdle /\ NormIdle /\ ExtractIdle /\ PlaceIdle /\ AnalyseIdle

NextReport ==
    \/ EmitText /\ UNCHANGED <<histVars, normVars, extractVars, placeVars, analyseVars>>
    \/ Output /\ UNCHANGED <<histVars, normVars, extractVars, placeVars, analyseVars>>
    \/ Rebuild /\ UNCHANGED <<histVars, normVars, extractVars, placeVars, analyseVars>>

SpecReport == InitReport /\ [][NextReport]_vars

\* The Waste Analyser page over the history store.
InitAnalyse == HistInit /\ AnalyseInit /\ NormIdle /\ PlaceIdle /\ ReportIdle

NextAnalyse ==
    \/ NewSession /\ UNCHANGED <<normVars, placeVars, reportVars>>
    \/ \E t \in AnalyseTexts, render \in RenderOutcomes, outcome \in WriteOutcomes :
          AnalyzeClicked(t, render, outcome) /\ UNCHANGED <<normVars, placeVars, reportVars>>

SpecAnalyse == InitAnalyse /\ [][NextAnalyse]_vars

====
